---- MODULE Spec2Model ----
(***************************************************************************)
(* Marketplace workflow engine (Project -> Request -> Task -> Submission). *)
(*                                                                         *)
(* Every HTTP handler runs in its own SQLAlchemy AsyncSession              *)
(* (app/database.py get_session), i.e. its own PostgreSQL transaction at   *)
(* the default READ COMMITTED level: every statement reads the latest      *)
(* committed rows, ORM objects loaded once stay cached in the session,     *)
(* UPDATEs are keyed on the primary key only, take a row lock that is      *)
(* held until COMMIT, and uncommitted writes are invisible to others.      *)
(* The tables below hold the committed rows; tx[t] holds what session t    *)
(* has cached and written but not yet committed.                           *)
(***************************************************************************)
EXTENDS Integers, FiniteSets, Sequences, TLC

\* ---- bounds of the model ------------------------------------------------
MaxProjects == 1
MaxRequests == 2
MaxTasks == 2
MaxSubmissions == 2
MaxBlobs == 2
\* calls made while handlers overlap (Spec)
MaxCalls == 2
\* raw refresh tokens ever generated
MaxTokens == 4

\* ---- fixed universe -----------------------------------------------------
NULL == "null"
Buyers == {"b1", "b2"}
Solvers == {"s1", "s2"}
Users == Buyers \cup Solvers
\* callers of create_project: the owning buyer, and a solver that is refused
Creators == {"b1", "s1"}
Txs == {1, 2}
Titles == {"t0", "t1"}

ProjectIds == 1..MaxProjects
RequestIds == 1..MaxRequests
TaskIds == 1..MaxTasks
SubmissionIds == 1..MaxSubmissions

VARIABLES users, projects, requests, tasks, submissions, blobs, tx, result, calls,
          refresh_tokens, token_count

vars == <<users, projects, requests, tasks, submissions, blobs, tx, result, calls,
          refresh_tokens, token_count>>
\* the refresh_tokens table and the number of raw tokens generated so far
auth == <<refresh_tokens, token_count>>
tables == <<users, projects, requests, tasks, submissions>>

\* ---- enumerations (app/models) -----------------------------------------
UserRole == {"ADMIN", "BUYER", "SOLVER"}
ProjectStatus == {"OPEN", "ASSIGNED", "COMPLETED"}
RequestStatus == {"PENDING", "ACCEPTED", "REJECTED"}
TaskStatus == {"IN_PROGRESS", "SUBMITTED", "COMPLETED", "REVISION_REQUESTED"}
SubmissionStatus == {"PENDING_REVIEW", "ACCEPTED", "REJECTED"}

\* ---- rows as the models construct them ----------------------------------
Project(buyer, title) ==
    [title |-> title, status |-> "OPEN", buyer_id |-> buyer,
     assigned_solver_id |-> NULL]

ProjectRequest(project_id, solver) ==
    [project_id |-> project_id, solver_id |-> solver, status |-> "PENDING"]

Task(project_id, solver, title) ==
    [project_id |-> project_id, created_by |-> solver, title |-> title,
     status |-> "IN_PROGRESS"]

Submission(task_id, file_url) ==
    [task_id |-> task_id, file_url |-> file_url, status |-> "PENDING_REVIEW",
     reviewer_notes |-> NULL]

\* ---- a session: nothing loaded, nothing written --------------------------
IdleTx ==
    [pc |-> "idle", op |-> "none", user |-> NULL, arg |-> 0,
     project_id |-> 0, solver_id |-> NULL, task_id |-> 0,
     task_status |-> NULL, file_url |-> 0, incomplete_count |-> 0,
     rejected |-> {}, patch |-> NULL]

NoResult == [status |-> 0, detail |-> ""]

\* a row of refresh_tokens; the raw token stands for its SHA-256 hash, and
\* expired tells whether expires_at has passed
RefreshToken(user_id, expired) == [user_id |-> user_id, expired |-> expired]

\* the tokens issued at login: a live one of b1 and one of s1 that has expired
IssuedTokens == (1 :> RefreshToken("b1", FALSE)) @@ (2 :> RefreshToken("s1", TRUE))

\* no call admitted yet
NoCalls == [n |-> 0, of |-> [t \in Txs |-> [op |-> "none", arg |-> 0]]]

Init ==
    /\ users = [u \in Users |-> IF u \in Buyers THEN "BUYER" ELSE "SOLVER"]
    /\ projects = <<>>
    /\ requests = <<>>
    /\ tasks = <<>>
    /\ submissions = <<>>
    /\ blobs = {}
    /\ tx = [t \in Txs |-> IdleTx]
    /\ result = [t \in Txs |-> NoResult]
    /\ calls = NoCalls
    /\ refresh_tokens = IssuedTokens
    /\ token_count = Cardinality(DOMAIN IssuedTokens)

\* ---- helpers ------------------------------------------------------------
NextId(table) == Cardinality(DOMAIN table) + 1

InFlight(op) == Cardinality({t \in Txs : tx[t].op = op})

\* dependencies.require_role: the caller's role must be one of `roles`
require_role(user, roles) == users[user] \in roles

\* Row locks a session holds until it commits or rolls back: the rows its
\* flushed-but-uncommitted UPDATE statements touched.
Held(t) ==
    CASE tx[t].pc = "ar_flushed" -> {<<"request", tx[t].arg>>}
      [] tx[t].pc = "ar_rejected" ->
            {<<"request", tx[t].arg>>} \cup {<<"request", r>> : r \in tx[t].rejected}
      [] tx[t].pc \in {"as_flushed", "as_counted"} ->
            {<<"submission", tx[t].arg>>, <<"task", tx[t].task_id>>}
      [] OTHER -> {}

LockedByOther(t, rows) == \E o \in Txs \ {t} : Held(o) \cap rows # {}

\* The handler starts: slot t is free; the start action records the call.
Enter(t, op, user, arg) ==
    [IdleTx EXCEPT !.pc = "started", !.op = op, !.user = user, !.arg = arg]

\* The handler returns (HTTP status + the detail of the raise site); the
\* session closes, which rolls back whatever was not committed.
Return(t, op, user, arg, status, detail) ==
    /\ tx' = [tx EXCEPT ![t] = IdleTx]
    /\ result' = [result EXCEPT ![t] =
          [status |-> status, detail |-> detail]]

Raise(t, status, detail) ==
    /\ Return(t, tx[t].op, tx[t].user, tx[t].arg, status, detail)
    /\ UNCHANGED <<tables, blobs>>

Goto(t, pc) ==
    /\ tx' = [tx EXCEPT ![t].pc = pc]
    /\ UNCHANGED <<result, tables, blobs>>

\* ==== projects/service.py =================================================

\* POST /api/projects : require_role(BUYER), then INSERT + COMMIT
create_project(t, buyer, title) ==
    /\ tx[t].pc = "idle"
    /\ IF ~require_role(buyer, {"BUYER"})
       THEN /\ Return(t, "create_project", buyer, 0, 403, "Role is not allowed")
            /\ UNCHANGED <<tables, blobs>>
       ELSE /\ NextId(projects) <= MaxProjects
            /\ projects' = projects @@ (NextId(projects) :> Project(buyer, title))
            /\ Return(t, "create_project", buyer, NextId(projects), 201, "")
            /\ UNCHANGED <<users, requests, tasks, submissions, blobs>>

\* PATCH /api/projects/{id} : checks, then UPDATE + COMMIT.  The patch is
\* the title (None = not provided).
update_project_get(t, buyer, project_id, title) ==
    /\ tx[t].pc = "idle"
    /\ IF ~require_role(buyer, {"BUYER"})
       THEN /\ Return(t, "update_project", buyer, project_id, 403, "Role is not allowed")
            /\ UNCHANGED <<tables, blobs>>
       ELSE IF project_id \notin DOMAIN projects
       THEN /\ Return(t, "update_project", buyer, project_id, 404, "Project not found")
            /\ UNCHANGED <<tables, blobs>>
       ELSE IF projects[project_id].buyer_id # buyer
       THEN /\ Return(t, "update_project", buyer, project_id, 403, "Not your project")
            /\ UNCHANGED <<tables, blobs>>
       ELSE IF projects[project_id].status # "OPEN"
       THEN /\ Return(t, "update_project", buyer, project_id, 400, "Can only update OPEN projects")
            /\ UNCHANGED <<tables, blobs>>
       ELSE /\ tx' = [tx EXCEPT ![t] =
                  [Enter(t, "update_project", buyer, project_id) EXCEPT
                      !.pc = "up_commit", !.patch = title]]
            /\ result' = [result EXCEPT ![t] = NoResult]
            /\ UNCHANGED <<tables, blobs>>

update_project_commit(t) ==
    /\ tx[t].pc = "up_commit"
    /\ projects' = [projects EXCEPT ![tx[t].arg].title =
           IF tx[t].patch # NULL THEN tx[t].patch ELSE @]
    /\ Return(t, "update_project", tx[t].user, tx[t].arg, 200, "")
    /\ UNCHANGED <<users, requests, tasks, submissions, blobs>>

\* ==== requests/service.py =================================================

\* SELECT ... WHERE project_id = :p AND solver_id = :s  (committed rows)
ExistingRequest(project_id, solver) ==
    \E r \in DOMAIN requests :
        requests[r].project_id = project_id /\ requests[r].solver_id = solver

\* POST /api/projects/{id}/requests : require_role(SOLVER), load the project
create_request_get_project(t, solver, project_id) ==
    /\ tx[t].pc = "idle"
    /\ IF ~require_role(solver, {"SOLVER"})
       THEN /\ Return(t, "create_request", solver, project_id, 403, "Role is not allowed")
            /\ UNCHANGED <<tables, blobs>>
       ELSE IF project_id \notin DOMAIN projects
       THEN /\ Return(t, "create_request", solver, project_id, 404, "Project not found")
            /\ UNCHANGED <<tables, blobs>>
       ELSE IF projects[project_id].status # "OPEN"
       THEN /\ Return(t, "create_request", solver, project_id, 400, "Project is not open for requests")
            /\ UNCHANGED <<tables, blobs>>
       ELSE /\ NextId(requests) + InFlight("create_request") <= MaxRequests
            /\ tx' = [tx EXCEPT ![t] =
                  [Enter(t, "create_request", solver, project_id) EXCEPT
                      !.pc = "cr_check", !.project_id = project_id]]
            /\ result' = [result EXCEPT ![t] = NoResult]
            /\ UNCHANGED <<tables, blobs>>

\* the application-level duplicate check
create_request_check_existing(t) ==
    /\ tx[t].pc = "cr_check"
    /\ IF ExistingRequest(tx[t].project_id, tx[t].user)
       THEN Raise(t, 400, "You already requested this project")
       ELSE Goto(t, "cr_commit")

\* session.add + commit: the INSERT is checked against the unique
\* constraint uq_request_project_solver; a violation is an IntegrityError
\* that no handler catches (500).
create_request_commit(t) ==
    /\ tx[t].pc = "cr_commit"
    /\ IF ExistingRequest(tx[t].project_id, tx[t].user)
       THEN Raise(t, 500, "IntegrityError uq_request_project_solver")
       ELSE /\ requests' = requests @@
                  (NextId(requests) :> ProjectRequest(tx[t].project_id, tx[t].user))
            /\ Return(t, "create_request", tx[t].user, NextId(requests), 201, "")
            /\ UNCHANGED <<users, projects, tasks, submissions, blobs>>

\* the handler without its PENDING check
accept_request_get_request_any_status(t, buyer, request_id) ==
    /\ tx[t].pc = "idle"
    /\ IF ~require_role(buyer, {"BUYER"})
       THEN /\ Return(t, "accept_request", buyer, request_id, 403, "Role is not allowed")
            /\ UNCHANGED <<tables, blobs>>
       ELSE IF request_id \notin DOMAIN requests
       THEN /\ Return(t, "accept_request", buyer, request_id, 404, "Request not found")
            /\ UNCHANGED <<tables, blobs>>
       ELSE /\ tx' = [tx EXCEPT ![t] =
                  [Enter(t, "accept_request", buyer, request_id) EXCEPT
                      !.pc = "ar_get_project",
                      !.project_id = requests[request_id].project_id,
                      !.solver_id = requests[request_id].solver_id]]
            /\ result' = [result EXCEPT ![t] = NoResult]
            /\ UNCHANGED <<tables, blobs>>

\* PATCH /api/requests/{id}/accept : require_role(BUYER), load the request
accept_request_get_request(t, buyer, request_id) ==
    /\ tx[t].pc = "idle"
    /\ IF ~require_role(buyer, {"BUYER"})
       THEN /\ Return(t, "accept_request", buyer, request_id, 403, "Role is not allowed")
            /\ UNCHANGED <<tables, blobs>>
       ELSE IF request_id \notin DOMAIN requests
       THEN /\ Return(t, "accept_request", buyer, request_id, 404, "Request not found")
            /\ UNCHANGED <<tables, blobs>>
       ELSE IF requests[request_id].status # "PENDING"
       THEN /\ Return(t, "accept_request", buyer, request_id, 400, "Request is not pending")
            /\ UNCHANGED <<tables, blobs>>
       ELSE /\ tx' = [tx EXCEPT ![t] =
                  [Enter(t, "accept_request", buyer, request_id) EXCEPT
                      !.pc = "ar_get_project",
                      !.project_id = requests[request_id].project_id,
                      !.solver_id = requests[request_id].solver_id]]
            /\ result' = [result EXCEPT ![t] = NoResult]
            /\ UNCHANGED <<tables, blobs>>

\* the check that the project can still be assigned
ProjectIsOpen(project) == project.status = "OPEN"

\* load the project: ownership, then the OPEN check
accept_request_get_project(t) ==
    /\ tx[t].pc = "ar_get_project"
    /\ LET project == projects[tx[t].project_id] IN
       IF project.buyer_id # tx[t].user
       THEN Raise(t, 403, "Not your project")
       ELSE IF ~ProjectIsOpen(project)
       THEN Raise(t, 400, "Project is not open")
       ELSE Goto(t, "ar_flush")

\* Rows the bulk UPDATE of step 2 matches: the other PENDING requests of
\* the project
OtherPending(project_id, request_id) ==
    {r \in DOMAIN requests :
        /\ requests[r].project_id = project_id
        /\ r # request_id
        /\ requests[r].status = "PENDING"}

\* Rows the next statement of session t has to lock
Wants(t) ==
    CASE tx[t].pc = "ar_flush" -> {<<"request", tx[t].arg>>}
      [] tx[t].pc = "ar_flushed" ->
            {<<"request", r>> : r \in OtherPending(tx[t].project_id, tx[t].arg)}
      [] tx[t].pc = "rr_commit" -> {<<"request", tx[t].arg>>}
      [] tx[t].pc = "ut_commit" -> {<<"task", tx[t].arg>>}
      [] tx[t].pc = "cs_commit" -> {<<"task", tx[t].arg>>}
      [] tx[t].pc = "as_flush" ->
            {<<"submission", tx[t].arg>>, <<"task", tx[t].task_id>>}
      [] tx[t].pc = "rs_commit" ->
            {<<"submission", tx[t].arg>>, <<"task", tx[t].task_id>>}
      [] OTHER -> {}

Blocked(t) == LockedByOther(t, Wants(t))

\* Step 1, flushed by the autoflush that precedes the bulk UPDATE:
\* UPDATE project_requests SET status = 'ACCEPTED' WHERE id = :request_id
accept_request_flush(t) ==
    /\ tx[t].pc = "ar_flush"
    /\ ~Blocked(t)
    /\ Goto(t, "ar_flushed")

\* a commit slipped in after step 2: the request writes become visible
\* before the project is assigned
accept_request_bulk_reject_committed(t) ==
    /\ tx[t].pc = "ar_flushed"
    /\ ~Blocked(t)
    /\ tx' = [tx EXCEPT ![t].pc = "ar_rejected", ![t].rejected = {}]
    /\ requests' = [r \in DOMAIN requests |->
          IF r = tx[t].arg THEN [requests[r] EXCEPT !.status = "ACCEPTED"]
          ELSE IF r \in OtherPending(tx[t].project_id, tx[t].arg)
               THEN [requests[r] EXCEPT !.status = "REJECTED"]
               ELSE requests[r]]
    /\ UNCHANGED <<result, users, projects, tasks, submissions, blobs>>

\* Step 2: UPDATE project_requests SET status = 'REJECTED' WHERE project_id
\* = :p AND id != :request_id AND status = 'PENDING'
accept_request_bulk_reject(t) ==
    /\ tx[t].pc = "ar_flushed"
    /\ ~Blocked(t)
    /\ tx' = [tx EXCEPT ![t].pc = "ar_rejected",
                        ![t].rejected = OtherPending(tx[t].project_id, tx[t].arg)]
    /\ UNCHANGED <<result, tables, blobs>>

\* The request rows as session t's COMMIT leaves them
AcceptedRequests(t) ==
    [r \in DOMAIN requests |->
        IF r = tx[t].arg THEN [requests[r] EXCEPT !.status = "ACCEPTED"]
        ELSE IF r \in tx[t].rejected THEN [requests[r] EXCEPT !.status = "REJECTED"]
        ELSE requests[r]]

AssignSolver_status_forgotten(project, solver_id) ==
    [project EXCEPT !.assigned_solver_id = solver_id]

\* Steps 3 and 4: the project row as the cascade writes it
AssignSolver(project, solver_id) ==
    [project EXCEPT !.assigned_solver_id = solver_id, !.status = "ASSIGNED"]

\* The COMMIT: UPDATE projects SET assigned_solver_id, status WHERE id = :p,
\* then all four writes become visible together
accept_request_commit(t) ==
    /\ tx[t].pc = "ar_rejected"
    /\ requests' = AcceptedRequests(t)
    /\ projects' = [projects EXCEPT
          ![tx[t].project_id] = AssignSolver(@, tx[t].solver_id)]
    /\ Return(t, "accept_request", tx[t].user, tx[t].arg, 200, "")
    /\ UNCHANGED <<users, tasks, submissions, blobs>>

\* PATCH /api/requests/{id}/reject : require_role(BUYER), load the request
reject_request_get_request(t, buyer, request_id) ==
    /\ tx[t].pc = "idle"
    /\ IF ~require_role(buyer, {"BUYER"})
       THEN /\ Return(t, "reject_request", buyer, request_id, 403, "Role is not allowed")
            /\ UNCHANGED <<tables, blobs>>
       ELSE IF request_id \notin DOMAIN requests
       THEN /\ Return(t, "reject_request", buyer, request_id, 404, "Request not found")
            /\ UNCHANGED <<tables, blobs>>
       ELSE IF requests[request_id].status # "PENDING"
       THEN /\ Return(t, "reject_request", buyer, request_id, 400, "Request is not pending")
            /\ UNCHANGED <<tables, blobs>>
       ELSE /\ tx' = [tx EXCEPT ![t] =
                  [Enter(t, "reject_request", buyer, request_id) EXCEPT
                      !.pc = "rr_get_project",
                      !.project_id = requests[request_id].project_id]]
            /\ result' = [result EXCEPT ![t] = NoResult]
            /\ UNCHANGED <<tables, blobs>>

\* the REJECTED write committed before the ownership check
reject_request_get_project_late_check(t) ==
    /\ tx[t].pc = "rr_get_project"
    /\ IF projects[tx[t].project_id].buyer_id # tx[t].user
       THEN /\ requests' = [requests EXCEPT ![tx[t].arg].status = "REJECTED"]
            /\ Return(t, "reject_request", tx[t].user, tx[t].arg, 403, "Not your project")
            /\ UNCHANGED <<users, projects, tasks, submissions, blobs>>
       ELSE Goto(t, "rr_commit")

reject_request_get_project(t) ==
    /\ tx[t].pc = "rr_get_project"
    /\ IF projects[tx[t].project_id].buyer_id # tx[t].user
       THEN Raise(t, 403, "Not your project")
       ELSE Goto(t, "rr_commit")

\* the rejection applied to every PENDING request of the project
reject_request_commit_rejects_all(t) ==
    /\ tx[t].pc = "rr_commit"
    /\ ~Blocked(t)
    /\ requests' = [r \in DOMAIN requests |->
           IF /\ requests[r].project_id = tx[t].project_id
              /\ (r = tx[t].arg \/ requests[r].status = "PENDING")
           THEN [requests[r] EXCEPT !.status = "REJECTED"]
           ELSE requests[r]]
    /\ Return(t, "reject_request", tx[t].user, tx[t].arg, 200, "")
    /\ UNCHANGED <<users, projects, tasks, submissions, blobs>>

\* UPDATE project_requests SET status = 'REJECTED' WHERE id = :id; COMMIT
reject_request_commit(t) ==
    /\ tx[t].pc = "rr_commit"
    /\ ~Blocked(t)
    /\ requests' = [requests EXCEPT ![tx[t].arg].status = "REJECTED"]
    /\ Return(t, "reject_request", tx[t].user, tx[t].arg, 200, "")
    /\ UNCHANGED <<users, projects, tasks, submissions, blobs>>

\* ==== tasks/service.py ====================================================

\* the assigned-solver check made before the status check
create_task_get_project_solver_first(t, solver, project_id, title) ==
    /\ tx[t].pc = "idle"
    /\ IF ~require_role(solver, {"SOLVER"})
       THEN /\ Return(t, "create_task", solver, project_id, 403, "Role is not allowed")
            /\ UNCHANGED <<tables, blobs>>
       ELSE IF project_id \notin DOMAIN projects
       THEN /\ Return(t, "create_task", solver, project_id, 404, "Project not found")
            /\ UNCHANGED <<tables, blobs>>
       ELSE IF projects[project_id].assigned_solver_id # solver
       THEN /\ Return(t, "create_task", solver, project_id, 403, "You are not assigned to this project")
            /\ UNCHANGED <<tables, blobs>>
       ELSE IF projects[project_id].status # "ASSIGNED"
       THEN /\ Return(t, "create_task", solver, project_id, 400, "Project must be in ASSIGNED status")
            /\ UNCHANGED <<tables, blobs>>
       ELSE /\ NextId(tasks) + InFlight("create_task") <= MaxTasks
            /\ tx' = [tx EXCEPT ![t] =
                  [Enter(t, "create_task", solver, project_id) EXCEPT
                      !.pc = "ct_commit", !.project_id = project_id, !.patch = title]]
            /\ result' = [result EXCEPT ![t] = NoResult]
            /\ UNCHANGED <<tables, blobs>>

\* the handler without the assigned-solver check: any solver may add tasks
create_task_get_project_any_solver(t, solver, project_id, title) ==
    /\ tx[t].pc = "idle"
    /\ IF ~require_role(solver, {"SOLVER"})
       THEN /\ Return(t, "create_task", solver, project_id, 403, "Role is not allowed")
            /\ UNCHANGED <<tables, blobs>>
       ELSE IF project_id \notin DOMAIN projects
       THEN /\ Return(t, "create_task", solver, project_id, 404, "Project not found")
            /\ UNCHANGED <<tables, blobs>>
       ELSE IF projects[project_id].status # "ASSIGNED"
       THEN /\ Return(t, "create_task", solver, project_id, 400, "Project must be in ASSIGNED status")
            /\ UNCHANGED <<tables, blobs>>
       ELSE /\ NextId(tasks) + InFlight("create_task") <= MaxTasks
            /\ tx' = [tx EXCEPT ![t] =
                  [Enter(t, "create_task", solver, project_id) EXCEPT
                      !.pc = "ct_commit", !.project_id = project_id, !.patch = title]]
            /\ result' = [result EXCEPT ![t] = NoResult]
            /\ UNCHANGED <<tables, blobs>>

\* POST /api/projects/{id}/tasks : require_role(SOLVER), checks, INSERT
create_task_get_project(t, solver, project_id, title) ==
    /\ tx[t].pc = "idle"
    /\ IF ~require_role(solver, {"SOLVER"})
       THEN /\ Return(t, "create_task", solver, project_id, 403, "Role is not allowed")
            /\ UNCHANGED <<tables, blobs>>
       ELSE IF project_id \notin DOMAIN projects
       THEN /\ Return(t, "create_task", solver, project_id, 404, "Project not found")
            /\ UNCHANGED <<tables, blobs>>
       ELSE IF projects[project_id].status # "ASSIGNED"
       THEN /\ Return(t, "create_task", solver, project_id, 400, "Project must be in ASSIGNED status")
            /\ UNCHANGED <<tables, blobs>>
       ELSE IF projects[project_id].assigned_solver_id # solver
       THEN /\ Return(t, "create_task", solver, project_id, 403, "You are not assigned to this project")
            /\ UNCHANGED <<tables, blobs>>
       ELSE /\ NextId(tasks) + InFlight("create_task") <= MaxTasks
            /\ tx' = [tx EXCEPT ![t] =
                  [Enter(t, "create_task", solver, project_id) EXCEPT
                      !.pc = "ct_commit", !.project_id = project_id, !.patch = title]]
            /\ result' = [result EXCEPT ![t] = NoResult]
            /\ UNCHANGED <<tables, blobs>>

create_task_commit(t) ==
    /\ tx[t].pc = "ct_commit"
    /\ tasks' = tasks @@
          (NextId(tasks) :> Task(tx[t].project_id, tx[t].user, tx[t].patch))
    /\ Return(t, "create_task", tx[t].user, NextId(tasks), 201, "")
    /\ UNCHANGED <<users, projects, requests, submissions, blobs>>

\* PATCH /api/tasks/{id} : require_role(SOLVER), load the task
update_task_get_task(t, solver, task_id, title) ==
    /\ tx[t].pc = "idle"
    /\ IF ~require_role(solver, {"SOLVER"})
       THEN /\ Return(t, "update_task", solver, task_id, 403, "Role is not allowed")
            /\ UNCHANGED <<tables, blobs>>
       ELSE IF task_id \notin DOMAIN tasks
       THEN /\ Return(t, "update_task", solver, task_id, 404, "Task not found")
            /\ UNCHANGED <<tables, blobs>>
       ELSE /\ tx' = [tx EXCEPT ![t] =
                  [Enter(t, "update_task", solver, task_id) EXCEPT
                      !.pc = "ut_get_project",
                      !.project_id = tasks[task_id].project_id,
                      !.task_status = tasks[task_id].status,
                      !.patch = title]]
            /\ result' = [result EXCEPT ![t] = NoResult]
            /\ UNCHANGED <<tables, blobs>>

update_task_get_project(t) ==
    /\ tx[t].pc = "ut_get_project"
    /\ IF projects[tx[t].project_id].assigned_solver_id # tx[t].user
       THEN Raise(t, 403, "Not assigned to this project")
       ELSE IF tx[t].task_status = "COMPLETED"
       THEN Raise(t, 400, "Cannot update a completed task")
       ELSE Goto(t, "ut_commit")

\* UPDATE tasks SET title, updated_at WHERE id = :id; COMMIT
update_task_commit(t) ==
    /\ tx[t].pc = "ut_commit"
    /\ ~Blocked(t)
    /\ tasks' = [tasks EXCEPT ![tx[t].arg].title =
           IF tx[t].patch # NULL THEN tx[t].patch ELSE @]
    /\ Return(t, "update_task", tx[t].user, tx[t].arg, 200, "")
    /\ UNCHANGED <<users, projects, requests, submissions, blobs>>

\* ==== storage/service.py and submissions/service.py =======================

Files == {"zip", "not_zip"}

\* storage.validate_zip: extension, MIME type, is_zipfile, size
validate_zip(file) == file = "zip"

\* uploads that were admitted but have not reached MinIO yet
PendingUploads ==
    Cardinality({t \in Txs : tx[t].pc \in {"cs_get_project", "cs_upload"}})

\* POST /api/tasks/{id}/submissions : require_role(SOLVER), load the task
create_submission_get_task(t, solver, task_id, file) ==
    /\ tx[t].pc = "idle"
    /\ IF ~require_role(solver, {"SOLVER"})
       THEN /\ Return(t, "create_submission", solver, task_id, 403, "Role is not allowed")
            /\ UNCHANGED <<tables, blobs>>
       ELSE IF task_id \notin DOMAIN tasks
       THEN /\ Return(t, "create_submission", solver, task_id, 404, "Task not found")
            /\ UNCHANGED <<tables, blobs>>
       ELSE /\ NextId(submissions) + InFlight("create_submission") <= MaxSubmissions
            /\ Cardinality(blobs) + PendingUploads < MaxBlobs
            /\ tx' = [tx EXCEPT ![t] =
                  [Enter(t, "create_submission", solver, task_id) EXCEPT
                      !.pc = "cs_get_project",
                      !.project_id = tasks[task_id].project_id,
                      !.task_status = tasks[task_id].status,
                      !.patch = file]]
            /\ result' = [result EXCEPT ![t] = NoResult]
            /\ UNCHANGED <<tables, blobs>>

\* steps 1-3 without the task-status check
create_submission_get_project_any_status(t) ==
    /\ tx[t].pc = "cs_get_project"
    /\ IF projects[tx[t].project_id].assigned_solver_id # tx[t].user
       THEN Raise(t, 403, "Not assigned to this project")
       ELSE IF ~validate_zip(tx[t].patch)
       THEN Raise(t, 400, "File is not a valid ZIP archive")
       ELSE Goto(t, "cs_upload")

\* steps 1-3: assigned solver, submittable task state, ZIP validation
create_submission_get_project(t) ==
    /\ tx[t].pc = "cs_get_project"
    /\ IF projects[tx[t].project_id].assigned_solver_id # tx[t].user
       THEN Raise(t, 403, "Not assigned to this project")
       ELSE IF tx[t].task_status \notin {"IN_PROGRESS", "REVISION_REQUESTED"}
       THEN Raise(t, 400, "Cannot submit when task is in this status")
       ELSE IF ~validate_zip(tx[t].patch)
       THEN Raise(t, 400, "File is not a valid ZIP archive")
       ELSE Goto(t, "cs_upload")

\* the storage exception swallowed: the handler goes on with an object name
\* that was never stored
upload_file_failure_ignored(t, stored) ==
    /\ blobs' = IF stored THEN blobs \cup {Cardinality(blobs) + 1} ELSE blobs
    /\ tx' = [tx EXCEPT ![t].pc = "cs_check",
                        ![t].file_url = Cardinality(blobs) + 1]
    /\ UNCHANGED <<result, tables>>

\* step 4, storage.upload_file: put_object stores the bytes under a fresh
\* object name, or raises (MinIO not configured, or the put fails); the
\* exception is not caught, the handler ends with 500 before any DB write.
upload_file(t, stored) ==
    IF stored
    THEN /\ blobs' = blobs \cup {Cardinality(blobs) + 1}
         /\ tx' = [tx EXCEPT ![t].pc = "cs_check",
                             ![t].file_url = Cardinality(blobs) + 1]
         /\ UNCHANGED <<result, tables>>
    ELSE Raise(t, 500, "StorageError")

create_submission_upload(t, stored) ==
    /\ tx[t].pc = "cs_upload"
    /\ upload_file(t, stored)

\* SELECT ... WHERE task_id = :t AND status = 'PENDING_REVIEW' (committed rows)
PendingReview(task_id) ==
    {s \in DOMAIN submissions :
        submissions[s].task_id = task_id /\ submissions[s].status = "PENDING_REVIEW"}

\* step 5a
create_submission_check_existing(t) ==
    /\ tx[t].pc = "cs_check"
    /\ IF PendingReview(tx[t].arg) # {}
       THEN Raise(t, 400, "Task already has a submission pending review")
       ELSE Goto(t, "cs_commit")

\* the resubmission written over the task's latest row instead of inserted
create_submission_commit_reuses_row(t) ==
    /\ tx[t].pc = "cs_commit"
    /\ ~Blocked(t)
    /\ LET mine == {s \in DOMAIN submissions : submissions[s].task_id = tx[t].arg} IN
       IF mine = {}
       THEN submissions' = submissions @@
               (NextId(submissions) :> Submission(tx[t].arg, tx[t].file_url))
       ELSE LET last == CHOOSE s \in mine : \A o \in mine : o <= s IN
            submissions' = [submissions EXCEPT
                               ![last] = Submission(tx[t].arg, tx[t].file_url)]
    /\ tasks' = [tasks EXCEPT ![tx[t].arg].status = "SUBMITTED"]
    /\ Return(t, "create_submission", tx[t].user, NextId(submissions), 201, "")
    /\ UNCHANGED <<users, projects, requests, blobs>>

\* the row inserted with the wrong foreign key (the first task's id)
create_submission_commit_wrong_task(t) ==
    /\ tx[t].pc = "cs_commit"
    /\ ~Blocked(t)
    /\ submissions' = submissions @@
          (NextId(submissions) :> Submission(1, tx[t].file_url))
    /\ tasks' = [tasks EXCEPT ![tx[t].arg].status = "SUBMITTED"]
    /\ Return(t, "create_submission", tx[t].user, NextId(submissions), 201, "")
    /\ UNCHANGED <<users, projects, requests, blobs>>

\* steps 5b, 5c and the COMMIT: UPDATE tasks SET status = 'SUBMITTED' WHERE
\* id = :t; INSERT INTO submissions.  The submissions table carries no
\* constraint besides its primary key.
create_submission_commit(t) ==
    /\ tx[t].pc = "cs_commit"
    /\ ~Blocked(t)
    /\ submissions' = submissions @@
          (NextId(submissions) :> Submission(tx[t].arg, tx[t].file_url))
    /\ tasks' = [tasks EXCEPT ![tx[t].arg].status = "SUBMITTED"]
    /\ Return(t, "create_submission", tx[t].user, NextId(submissions), 201, "")
    /\ UNCHANGED <<users, projects, requests, blobs>>

\* the handler without its ownership check: any buyer may accept
accept_submission_get_chain_any_buyer(t, buyer, submission_id) ==
    /\ tx[t].pc = "idle"
    /\ IF ~require_role(buyer, {"BUYER"})
       THEN /\ Return(t, "accept_submission", buyer, submission_id, 403, "Role is not allowed")
            /\ UNCHANGED <<tables, blobs>>
       ELSE IF submission_id \notin DOMAIN submissions
       THEN /\ Return(t, "accept_submission", buyer, submission_id, 404, "Submission not found")
            /\ UNCHANGED <<tables, blobs>>
       ELSE LET task_id == submissions[submission_id].task_id
                project_id == tasks[task_id].project_id IN
       IF submissions[submission_id].status # "PENDING_REVIEW"
       THEN /\ Return(t, "accept_submission", buyer, submission_id, 400, "Submission is not pending review")
            /\ UNCHANGED <<tables, blobs>>
       ELSE /\ tx' = [tx EXCEPT ![t] =
                  [Enter(t, "accept_submission", buyer, submission_id) EXCEPT
                      !.pc = "as_flush", !.task_id = task_id,
                      !.project_id = project_id]]
            /\ result' = [result EXCEPT ![t] = NoResult]
            /\ UNCHANGED <<tables, blobs>>

\* PATCH /api/submissions/{id}/accept : require_role(BUYER), load the chain
\* submission -> task -> project (task.project_id and project.buyer_id never
\* change), ownership, then the PENDING_REVIEW check
accept_submission_get_chain(t, buyer, submission_id) ==
    /\ tx[t].pc = "idle"
    /\ IF ~require_role(buyer, {"BUYER"})
       THEN /\ Return(t, "accept_submission", buyer, submission_id, 403, "Role is not allowed")
            /\ UNCHANGED <<tables, blobs>>
       ELSE IF submission_id \notin DOMAIN submissions
       THEN /\ Return(t, "accept_submission", buyer, submission_id, 404, "Submission not found")
            /\ UNCHANGED <<tables, blobs>>
       ELSE LET task_id == submissions[submission_id].task_id
                project_id == tasks[task_id].project_id IN
       IF projects[project_id].buyer_id # buyer
       THEN /\ Return(t, "accept_submission", buyer, submission_id, 403, "Not your project")
            /\ UNCHANGED <<tables, blobs>>
       ELSE IF submissions[submission_id].status # "PENDING_REVIEW"
       THEN /\ Return(t, "accept_submission", buyer, submission_id, 400, "Submission is not pending review")
            /\ UNCHANGED <<tables, blobs>>
       ELSE /\ tx' = [tx EXCEPT ![t] =
                  [Enter(t, "accept_submission", buyer, submission_id) EXCEPT
                      !.pc = "as_flush", !.task_id = task_id,
                      !.project_id = project_id]]
            /\ result' = [result EXCEPT ![t] = NoResult]
            /\ UNCHANGED <<tables, blobs>>

\* 4a, 4b and session.flush(): UPDATE submissions SET status = 'ACCEPTED'
\* WHERE id = :s; UPDATE tasks SET status = 'COMPLETED' WHERE id = :t
accept_submission_flush(t) ==
    /\ tx[t].pc = "as_flush"
    /\ ~Blocked(t)
    /\ Goto(t, "as_flushed")

\* the count taken without the flush: the session's own task still counts
\* as incomplete
IncompleteCount_no_flush(t) ==
    Cardinality({k \in DOMAIN tasks :
        /\ tasks[k].project_id = tx[t].project_id
        /\ tasks[k].status # "COMPLETED"})

\* 4c: SELECT count(*) FROM tasks WHERE project_id = :p AND status !=
\* 'COMPLETED', as session t sees it: the committed rows of the other
\* tasks and its own flushed write to its task
IncompleteCount(t) ==
    Cardinality({k \in DOMAIN tasks :
        /\ tasks[k].project_id = tx[t].project_id
        /\ k # tx[t].task_id
        /\ tasks[k].status # "COMPLETED"})

accept_submission_count(t) ==
    /\ tx[t].pc = "as_flushed"
    /\ tx' = [tx EXCEPT ![t].pc = "as_counted",
                        ![t].incomplete_count = IncompleteCount(t)]
    /\ UNCHANGED <<result, tables, blobs>>

\* the project completed whatever the count says
ProjectAfterCount_always(project, incomplete_count) ==
    [project EXCEPT !.status = "COMPLETED"]

\* the project as the cascade leaves it
ProjectAfterCount(project, incomplete_count) ==
    IF incomplete_count = 0 THEN [project EXCEPT !.status = "COMPLETED"] ELSE project

\* COMMIT (with the project UPDATE when the count was zero)
accept_submission_commit(t) ==
    /\ tx[t].pc = "as_counted"
    /\ submissions' = [submissions EXCEPT ![tx[t].arg].status = "ACCEPTED"]
    /\ tasks' = [tasks EXCEPT ![tx[t].task_id].status = "COMPLETED"]
    /\ projects' = [projects EXCEPT ![tx[t].project_id] =
           ProjectAfterCount(@, tx[t].incomplete_count)]
    /\ Return(t, "accept_submission", tx[t].user, tx[t].arg, 200, "")
    /\ UNCHANGED <<users, requests, blobs>>

\* PATCH /api/submissions/{id}/reject : same loads and checks as accept
reject_submission_get_chain(t, buyer, submission_id) ==
    /\ tx[t].pc = "idle"
    /\ IF ~require_role(buyer, {"BUYER"})
       THEN /\ Return(t, "reject_submission", buyer, submission_id, 403, "Role is not allowed")
            /\ UNCHANGED <<tables, blobs>>
       ELSE IF submission_id \notin DOMAIN submissions
       THEN /\ Return(t, "reject_submission", buyer, submission_id, 404, "Submission not found")
            /\ UNCHANGED <<tables, blobs>>
       ELSE LET task_id == submissions[submission_id].task_id
                project_id == tasks[task_id].project_id IN
       IF projects[project_id].buyer_id # buyer
       THEN /\ Return(t, "reject_submission", buyer, submission_id, 403, "Not your project")
            /\ UNCHANGED <<tables, blobs>>
       ELSE IF submissions[submission_id].status # "PENDING_REVIEW"
       THEN /\ Return(t, "reject_submission", buyer, submission_id, 400, "Submission is not pending review")
            /\ UNCHANGED <<tables, blobs>>
       ELSE /\ tx' = [tx EXCEPT ![t] =
                  [Enter(t, "reject_submission", buyer, submission_id) EXCEPT
                      !.pc = "rs_commit", !.task_id = task_id,
                      !.project_id = project_id]]
            /\ result' = [result EXCEPT ![t] = NoResult]
            /\ UNCHANGED <<tables, blobs>>

\* the rejection without the task update: the task stays SUBMITTED
reject_submission_commit_task_forgotten(t) ==
    /\ tx[t].pc = "rs_commit"
    /\ ~Blocked(t)
    /\ submissions' = [submissions EXCEPT ![tx[t].arg].status = "REJECTED",
                                          ![tx[t].arg].reviewer_notes = "notes"]
    /\ Return(t, "reject_submission", tx[t].user, tx[t].arg, 200, "")
    /\ UNCHANGED <<users, projects, requests, tasks, blobs>>

\* UPDATE submissions SET status = 'REJECTED', reviewer_notes; UPDATE tasks
\* SET status = 'REVISION_REQUESTED'; COMMIT
reject_submission_commit(t) ==
    /\ tx[t].pc = "rs_commit"
    /\ ~Blocked(t)
    /\ submissions' = [submissions EXCEPT ![tx[t].arg].status = "REJECTED",
                                          ![tx[t].arg].reviewer_notes = "notes"]
    /\ tasks' = [tasks EXCEPT ![tx[t].task_id].status = "REVISION_REQUESTED"]
    /\ Return(t, "reject_submission", tx[t].user, tx[t].arg, 200, "")
    /\ UNCHANGED <<users, projects, requests, blobs>>

\* ==== PostgreSQL ==========================================================

\* no deadlock detection: sessions that wait for each other wait for ever
deadlock_abort_never(t) ==
    /\ \E o \in Txs \ {t} :
          /\ Wants(t) \cap Held(o) # {}
          /\ Wants(o) \cap Held(t) # {}
          /\ o = t
    /\ Raise(t, 500, "deadlock detected")

\* Two sessions each wait for a row lock the other holds: the deadlock
\* detector aborts one of them, its handler ends with an uncaught error
\* and its session rolls back, releasing its locks.
deadlock_abort(t) ==
    /\ \E o \in Txs \ {t} :
          /\ Wants(t) \cap Held(o) # {}
          /\ Wants(o) \cap Held(t) # {}
    /\ Raise(t, 500, "deadlock detected")

\* ==== the system ===========================================================

Handlers(t, titles) ==
    \/ \E b \in Creators, title \in titles : create_project(t, b, title)
    \/ \E b \in Users, p \in ProjectIds, title \in (titles \ {"t0"}) \cup {NULL} :
          update_project_get(t, b, p, title)
    \/ update_project_commit(t)
    \/ \E s \in Users, p \in ProjectIds : create_request_get_project(t, s, p)
    \/ create_request_check_existing(t)
    \/ create_request_commit(t)
    \/ \E b \in Users, r \in RequestIds : accept_request_get_request(t, b, r)
    \/ accept_request_get_project(t)
    \/ accept_request_flush(t)
    \/ accept_request_bulk_reject(t)
    \/ accept_request_commit(t)
    \/ \E b \in Users, r \in RequestIds : reject_request_get_request(t, b, r)
    \/ reject_request_get_project(t)
    \/ reject_request_commit(t)
    \/ \E s \in Users, p \in ProjectIds, title \in titles :
          create_task_get_project(t, s, p, title)
    \/ create_task_commit(t)
    \/ \E s \in Users, k \in TaskIds, title \in (titles \ {"t0"}) \cup {NULL} :
          update_task_get_task(t, s, k, title)
    \/ update_task_get_project(t)
    \/ update_task_commit(t)
    \/ \E s \in Users, k \in TaskIds, f \in Files : create_submission_get_task(t, s, k, f)
    \/ create_submission_get_project(t)
    \/ \E stored \in BOOLEAN : create_submission_upload(t, stored)
    \/ create_submission_check_existing(t)
    \/ create_submission_commit(t)
    \/ \E b \in Users, s \in SubmissionIds : accept_submission_get_chain(t, b, s)
    \/ accept_submission_flush(t)
    \/ accept_submission_count(t)
    \/ accept_submission_commit(t)
    \/ \E b \in Users, s \in SubmissionIds : reject_submission_get_chain(t, b, s)
    \/ reject_submission_commit(t)

\* Committed states of the store from which overlapping handlers are
\* explored; each is reached by running handlers one at a time (SnapshotsReached)
OpenProject == (1 :> Project("b1", "t0"))
AssignedProject ==
    (1 :> [Project("b1", "t0") EXCEPT !.status = "ASSIGNED", !.assigned_solver_id = "s1"])
OneBid == (1 :> ProjectRequest(1, "s1"))
TwoBids == (1 :> ProjectRequest(1, "s1")) @@ (2 :> ProjectRequest(1, "s2"))
DecidedBids ==
    (1 :> [ProjectRequest(1, "s1") EXCEPT !.status = "ACCEPTED"])
    @@ (2 :> [ProjectRequest(1, "s2") EXCEPT !.status = "REJECTED"])
TwoTasks == (1 :> Task(1, "s1", "t0")) @@ (2 :> Task(1, "s1", "t0"))
TwoSubmitted ==
    (1 :> [Task(1, "s1", "t0") EXCEPT !.status = "SUBMITTED"])
    @@ (2 :> [Task(1, "s1", "t0") EXCEPT !.status = "SUBMITTED"])
OneSubmitted == (1 :> [Task(1, "s1", "t0") EXCEPT !.status = "SUBMITTED"])
OneReturned == (1 :> [Task(1, "s1", "t0") EXCEPT !.status = "REVISION_REQUESTED"])
OneCompleted == (1 :> [Task(1, "s1", "t0") EXCEPT !.status = "COMPLETED"])
CompletedProject ==
    (1 :> [Project("b1", "t0") EXCEPT !.status = "COMPLETED", !.assigned_solver_id = "s1"])

Snapshots ==
    { [p |-> <<>>, r |-> <<>>, k |-> <<>>, s |-> <<>>, b |-> {}],
      [p |-> OpenProject, r |-> <<>>, k |-> <<>>, s |-> <<>>, b |-> {}],
      [p |-> OpenProject, r |-> OneBid, k |-> <<>>, s |-> <<>>, b |-> {}],
      [p |-> OpenProject, r |-> TwoBids, k |-> <<>>, s |-> <<>>, b |-> {}],
      [p |-> AssignedProject, r |-> DecidedBids, k |-> TwoTasks, s |-> <<>>, b |-> {}],
      [p |-> AssignedProject, r |-> DecidedBids, k |-> OneSubmitted,
       s |-> (1 :> Submission(1, 1)), b |-> {1}],
      [p |-> AssignedProject, r |-> DecidedBids, k |-> OneReturned,
       s |-> (1 :> [Submission(1, 1) EXCEPT !.status = "REJECTED",
                                            !.reviewer_notes = "notes"]),
       b |-> {1}],
      [p |-> CompletedProject, r |-> DecidedBids, k |-> OneCompleted,
       s |-> (1 :> [Submission(1, 1) EXCEPT !.status = "ACCEPTED"]), b |-> {1}],
      [p |-> AssignedProject, r |-> DecidedBids, k |-> TwoSubmitted,
       s |-> (1 :> Submission(1, 1)) @@ (2 :> Submission(2, 2)), b |-> {1, 2}] }

ConcInit ==
    /\ users = [u \in Users |-> IF u \in Buyers THEN "BUYER" ELSE "SOLVER"]
    /\ \E snap \in Snapshots :
          /\ projects = snap.p
          /\ requests = snap.r
          /\ tasks = snap.k
          /\ submissions = snap.s
          /\ blobs = snap.b
    /\ tx = [t \in Txs |-> IdleTx]
    /\ result = [t \in Txs |-> NoResult]
    /\ calls = NoCalls
    /\ refresh_tokens = IssuedTokens
    /\ token_count = Cardinality(DOMAIN IssuedTokens)

\* A call is admitted while the budget lasts.  calls counts the admitted
\* calls and keeps, per session, the handler and the argument of its latest
\* call when that call got past its first check.
Budget(t) ==
    IF tx[t].pc = "idle"
    THEN /\ calls.n < MaxCalls
         /\ calls' = [n |-> calls.n + 1,
                      of |-> [calls.of EXCEPT ![t] = [op |-> tx'[t].op, arg |-> tx'[t].arg]]]
    ELSE UNCHANGED calls

\* handlers run concurrently, one session each
Next ==
    \E t \in Txs :
        \/ Handlers(t, Titles) /\ Budget(t) /\ UNCHANGED auth
        \/ deadlock_abort(t) /\ UNCHANGED <<calls, auth>>

Spec == ConcInit /\ [][Next]_vars

\* handlers run one at a time, from the empty store
SeqNext == Handlers(1, {"t0"}) /\ UNCHANGED <<calls, auth>>

SeqSpec == Init /\ [][SeqNext]_vars

\* one accept_request call (session 2) stays open while session 1 runs
\* handlers one after another, from the empty store
accept_request_steps(t) ==
    \/ \E b \in Buyers, r \in RequestIds : accept_request_get_request(t, b, r)
    \/ accept_request_get_project(t)
    \/ accept_request_flush(t)
    \/ accept_request_bulk_reject(t)
    \/ accept_request_commit(t)

SlowAcceptNext ==
    /\ \/ Handlers(1, {"t0"})
       \/ accept_request_steps(2)
       \/ \E t \in Txs : deadlock_abort(t)
    /\ UNCHANGED <<calls, auth>>

SlowAcceptSpec == Init /\ [][SlowAcceptNext]_vars

\* every snapshot is a state of SeqSpec
SnapshotsReached ==
    [p |-> projects, r |-> requests, k |-> tasks, s |-> submissions, b |-> blobs]
        \notin Snapshots \/ tx[1].pc # "idle"

\* ==== properties =========================================================

\* ---- overlapping handlers (Spec) ----------------------------------------

\* both sessions ran handler op past its first check and have returned
BothRan(op) ==
    /\ calls.n = 2
    /\ \A t \in Txs : calls.of[t].op = op /\ tx[t].pc = "idle"

\* C1: when the owner's accept_request calls on two different PENDING
\* requests of one OPEN project overlap, exactly one returns 200 and the
\* other returns the 400 of an invalid state
C1_ExactlyOneAcceptSucceeds ==
    (/\ BothRan("accept_request")
     /\ calls.of[1].arg # calls.of[2].arg
     /\ \A t \in Txs : result[t].status # 403)
        => \E w \in Txs :
              /\ result[w].status = 200
              /\ \A l \in Txs \ {w} : result[l].status = 400

\* C2: no interleaving leaves a project with two ACCEPTED requests, or with
\* an assigned solver that is not the solver of its ACCEPTED request
C2_OneAcceptedMatchesAssigned ==
    \A p \in DOMAIN projects :
        LET accepted == {r \in DOMAIN requests :
                            requests[r].project_id = p /\ requests[r].status = "ACCEPTED"}
        IN /\ Cardinality(accepted) <= 1
           /\ \A r \in accepted : projects[p].assigned_solver_id = requests[r].solver_id

\* C6: of two overlapping create_submission calls for one task at most one
\* commits its row
C6_AtMostOneSubmissionCommits ==
    (BothRan("create_submission") /\ calls.of[1].arg = calls.of[2].arg)
        => ~(\A t \in Txs : result[t].status = 201)

\* C7: when the accept_submission calls for the last two incomplete tasks
\* of a project overlap and both commit, the project ends COMPLETED
C7_LastTwoAcceptsCompleteProject ==
    (/\ BothRan("accept_submission")
     /\ calls.of[1].arg # calls.of[2].arg
     /\ \A t \in Txs : result[t].status = 200
     /\ \A k \in DOMAIN tasks : tasks[k].status = "COMPLETED")
        => \A p \in DOMAIN projects : projects[p].status = "COMPLETED"

\* C9: accept_request is atomic: a step of the handler either leaves the
\* committed requests and projects as they were, or it is its return with
\* the request ACCEPTED, the siblings it matched REJECTED, and the project
\* ASSIGNED to the request's solver; no committed state has an ACCEPTED
\* request on a project that is OPEN or has no assigned solver
C9_AcceptRequestAtomic ==
    [][/\ \A r \in DOMAIN requests' :
              requests'[r].status = "ACCEPTED" =>
                  /\ projects'[requests'[r].project_id].status # "OPEN"
                  /\ projects'[requests'[r].project_id].assigned_solver_id # NULL
       /\ \A t \in Txs :
              (tx[t].op = "accept_request" /\ tx'[t] # tx[t]) =>
                  \/ UNCHANGED <<projects, requests>>
                  \/ /\ tx'[t].pc = "idle"
                     /\ result'[t].status = 200
                     /\ requests'[tx[t].arg].status = "ACCEPTED"
                     /\ \A o \in tx[t].rejected : requests'[o].status = "REJECTED"
                     /\ projects'[tx[t].project_id].status = "ASSIGNED"
                     /\ projects'[tx[t].project_id].assigned_solver_id = tx[t].solver_id]_vars

\* an accept_request that returned 200 with its four writes committed
C9_Witness ==
    \E t \in Txs :
        /\ calls.of[t].op = "accept_request"
        /\ tx[t].pc = "idle"
        /\ result[t].status = 200
        /\ requests[calls.of[t].arg].status = "ACCEPTED"
        /\ \E o \in DOMAIN requests : requests[o].status = "REJECTED"
        /\ projects[requests[calls.of[t].arg].project_id].assigned_solver_id
               = requests[calls.of[t].arg].solver_id

\* C10: when the blob store fails, create_submission ends with an error and
\* neither the tables nor the blob store have changed; every submission
\* row names a blob that is in the store
C10_StorageFailureLeavesNoTrace ==
    [][/\ \A t \in Txs :
              (tx[t].pc = "cs_upload" /\ result'[t].detail = "StorageError") =>
                  /\ result'[t].status = 500
                  /\ tx'[t].pc = "idle"
                  /\ UNCHANGED <<tables, blobs>>
       /\ \A s \in DOMAIN submissions' : submissions'[s].file_url \in blobs']_vars

\* a create_submission that ended on the storage error: its task is still
\* open for a submission and has no submission pending
C10_Witness ==
    \E t \in Txs :
        /\ calls.of[t].op = "create_submission"
        /\ tx[t].pc = "idle"
        /\ result[t] = [status |-> 500, detail |-> "StorageError"]
        /\ tasks[calls.of[t].arg].status = "IN_PROGRESS"
        /\ \A s \in DOMAIN submissions : submissions[s].task_id # calls.of[t].arg

\* C3: in every reachable state a project has an assigned solver exactly
\* when it is ASSIGNED or COMPLETED
C3_AssignedIffStatus ==
    \A p \in DOMAIN projects :
        (projects[p].assigned_solver_id # NULL)
            <=> (projects[p].status \in {"ASSIGNED", "COMPLETED"})

\* an accept_submission has closed a project, which keeps its solver
C3_Witness ==
    \E t \in Txs :
        /\ calls.of[t].op = "accept_submission"
        /\ tx[t].pc = "idle"
        /\ result[t].status = 200
        /\ \E p \in DOMAIN projects :
              /\ projects[p].status = "COMPLETED"
              /\ projects[p].assigned_solver_id # NULL

\* C4: a project never has more than one ACCEPTED request; a request
\* becomes ACCEPTED only while its project is OPEN, and the step that
\* accepts it leaves every other request of the project that was PENDING
\* REJECTED, so that the project has no PENDING request left
C4_OneAcceptedOthersRejected ==
    [][/\ \A p \in DOMAIN projects' :
              Cardinality({r \in DOMAIN requests' :
                  /\ requests'[r].project_id = p
                  /\ requests'[r].status = "ACCEPTED"}) <= 1
       /\ \A r \in DOMAIN requests :
              (requests[r].status # "ACCEPTED" /\ requests'[r].status = "ACCEPTED") =>
                  /\ projects[requests[r].project_id].status = "OPEN"
                  /\ \A o \in DOMAIN requests :
                        requests[o].project_id = requests[r].project_id =>
                            /\ requests'[o].status # "PENDING"
                            /\ (o # r /\ requests[o].status = "PENDING")
                                   => requests'[o].status = "REJECTED"]_vars

\* ---- handlers one at a time (SeqSpec) -----------------------------------

\* C5: in every state reached by running the operations one after another,
\* a task has at most one PENDING_REVIEW submission
C5_OnePendingReviewPerTask ==
    \A k \in DOMAIN tasks :
        Cardinality({s \in DOMAIN submissions :
            /\ submissions[s].task_id = k
            /\ submissions[s].status = "PENDING_REVIEW"}) <= 1

\* a task that was resubmitted after a rejection
C5_Witness ==
    \E k \in DOMAIN tasks : \E a, b \in DOMAIN submissions :
        /\ submissions[a].task_id = k /\ submissions[a].status = "REJECTED"
        /\ submissions[b].task_id = k /\ submissions[b].status = "PENDING_REVIEW"

\* C8: an accept_submission that returns 200 leaves the submission ACCEPTED
\* and its task COMPLETED, and leaves the project COMPLETED exactly when no
\* task of the project is left with another status; otherwise the project
\* status is as before
C8_AcceptSubmissionCascade ==
    [][\A t \in Txs :
          (/\ tx[t].op = "accept_submission"
           /\ tx'[t].pc = "idle"
           /\ result'[t].status = 200) =>
              LET s == tx[t].arg
                  k == submissions[s].task_id
                  p == tasks[k].project_id
                  done == \A j \in DOMAIN tasks' :
                              tasks'[j].project_id = p => tasks'[j].status = "COMPLETED"
              IN /\ submissions'[s].status = "ACCEPTED"
                 /\ tasks'[k].status = "COMPLETED"
                 /\ projects'[p].status =
                        IF done THEN "COMPLETED" ELSE projects[p].status]_vars

\* the two-task scenario: both tasks accepted, the second accept closed the
\* project
C8_Witness ==
    /\ Cardinality(DOMAIN tasks) = 2
    /\ \A k \in DOMAIN tasks : tasks[k].status = "COMPLETED"
    /\ \A s \in DOMAIN submissions : submissions[s].status = "ACCEPTED"
    /\ \A p \in DOMAIN projects : projects[p].status = "COMPLETED"
    /\ result[1].status = 200

\* ---- claims C11 to C20 ---------------------------------------------------

\* the session whose step this is has returned with one of `statuses`
Returned(statuses) ==
    \E t \in Txs :
        /\ tx'[t].pc = "idle"
        /\ result'[t].status \in statuses
        /\ \A o \in Txs \ {t} : tx'[o] = tx[o] /\ result'[o] = result[o]

\* C11: a call that ends on a failed precondition leaves the committed
\* tables as they were: the only steps that change a table are returns with
\* 200 or 201
C11_FailureLeavesStoreUnchanged ==
    [][tables' # tables => Returned({200, 201})]_vars

\* an accept_request that got past loading its request and then failed
C11_Witness ==
    \E t \in Txs :
        /\ calls.of[t].op = "accept_request"
        /\ tx[t].pc = "idle"
        /\ result[t].status \in {400, 403}

\* C12: accept_request called by a buyer on a request that is already
\* ACCEPTED returns 400 (invalid state) at once and changes no table
C12_SecondAcceptRefused ==
    [][\A t \in Txs, b \in Buyers, r \in DOMAIN requests :
          (requests[r].status = "ACCEPTED" /\ accept_request_get_request(t, b, r)) =>
              /\ result'[t] = [status |-> 400, detail |-> "Request is not pending"]
              /\ tx'[t].pc = "idle"
              /\ UNCHANGED tables]_vars

\* an accept_request returned 200, and a later call on a decided request
\* was refused
C12_Witness ==
    \E a, c \in Txs :
        /\ calls.of[a].op = "accept_request"
        /\ requests[calls.of[a].arg].status = "ACCEPTED"
        /\ calls.n = 2
        /\ tx[c].pc = "idle"
        /\ result[c] = [status |-> 400, detail |-> "Request is not pending"]

\* C13: with handlers run one at a time, a create_submission by the
\* assigned solver with a valid ZIP on a task that is IN_PROGRESS or
\* REVISION_REQUESTED fails only when the blob store fails, and otherwise
\* returns 201 with a new PENDING_REVIEW row and the task SUBMITTED; a
\* reject_submission by the owning buyer on a PENDING_REVIEW submission is
\* admitted and returns 200 with the row REJECTED, the task
\* REVISION_REQUESTED and no row added.  So submit, reject, submit ends with
\* two rows, REJECTED then PENDING_REVIEW, and the task SUBMITTED.
C13_ResubmitAfterRejection ==
    [][\A t \in Txs :
          /\ (/\ tx[t].op = "create_submission"
              /\ tx'[t].pc = "idle"
              /\ tx[t].user = projects[tx[t].project_id].assigned_solver_id
              /\ tx[t].task_status \in {"IN_PROGRESS", "REVISION_REQUESTED"}
              /\ validate_zip(tx[t].patch)
              /\ result'[t].detail # "StorageError") =>
                 /\ result'[t].status = 201
                 /\ DOMAIN submissions' = DOMAIN submissions \cup {NextId(submissions)}
                 /\ submissions'[NextId(submissions)].task_id = tx[t].arg
                 /\ submissions'[NextId(submissions)].status = "PENDING_REVIEW"
                 /\ \A s \in DOMAIN submissions : submissions'[s] = submissions[s]
                 /\ tasks'[tx[t].arg].status = "SUBMITTED"
          /\ \A b \in Buyers, s \in DOMAIN submissions :
                (/\ reject_submission_get_chain(t, b, s)
                 /\ submissions[s].status = "PENDING_REVIEW"
                 /\ projects[tasks[submissions[s].task_id].project_id].buyer_id = b) =>
                    tx'[t].pc = "rs_commit"
          /\ (tx[t].op = "reject_submission" /\ tx'[t].pc = "idle") =>
                 /\ result'[t].status = 200
                 /\ DOMAIN submissions' = DOMAIN submissions
                 /\ submissions'[tx[t].arg].status = "REJECTED"
                 /\ tasks'[tx[t].task_id].status = "REVISION_REQUESTED"]_vars

\* the end of submit, reject, submit: the task is SUBMITTED and has two
\* rows, the first REJECTED and the second PENDING_REVIEW
C13_Witness ==
    \E k \in DOMAIN tasks :
        /\ tasks[k].status = "SUBMITTED"
        /\ {s \in DOMAIN submissions : submissions[s].task_id = k} = {1, 2}
        /\ submissions[1].status = "REJECTED"
        /\ submissions[2].status = "PENDING_REVIEW"
        /\ result[1].status = 201

\* the stages of the end-to-end scenario (buyer b1, solvers A = s1, B = s2)
SubmissionStatuses == [s \in DOMAIN submissions |-> submissions[s].status]
SubmissionTasks == [s \in DOMAIN submissions |-> submissions[s].task_id]
Posted == projects = OpenProject /\ tasks = <<>> /\ submissions = <<>>
Bidding == Posted /\ requests = TwoBids
Assigned ==
    /\ projects = AssignedProject /\ requests = DecidedBids
    /\ tasks = <<>> /\ submissions = <<>>
Working ==
    /\ projects = AssignedProject /\ requests = DecidedBids
    /\ tasks = (1 :> Task(1, "s1", "t0")) /\ submissions = <<>>
FirstSubmitted ==
    /\ projects = AssignedProject /\ requests = DecidedBids
    /\ tasks = OneSubmitted
    /\ SubmissionStatuses = (1 :> "PENDING_REVIEW") /\ SubmissionTasks = (1 :> 1)
Returned1 ==
    /\ projects = AssignedProject /\ requests = DecidedBids
    /\ tasks = OneReturned
    /\ SubmissionStatuses = (1 :> "REJECTED") /\ SubmissionTasks = (1 :> 1)
Resubmitted ==
    /\ projects = AssignedProject /\ requests = DecidedBids
    /\ tasks = OneSubmitted
    /\ SubmissionStatuses = <<"REJECTED", "PENDING_REVIEW">>
    /\ SubmissionTasks = <<1, 1>>
Delivered ==
    /\ projects = CompletedProject /\ requests = DecidedBids
    /\ tasks = OneCompleted
    /\ SubmissionStatuses = <<"REJECTED", "ACCEPTED">>
    /\ SubmissionTasks = <<1, 1>>

\* session t returns from handler op called by user with argument arg
Returns(t, op, user, arg) ==
    /\ tx[t].op = op /\ tx[t].user = user /\ tx[t].arg = arg
    /\ tx'[t].pc = "idle"

\* C14: the end-to-end scenario, handlers run one at a time: each call of
\* the scenario, made in the stage the scenario has reached, is admitted and
\* returns with success in the next stage; create_task by solver B on the
\* assigned project returns 403 and changes nothing
C14_EndToEndScenario ==
    [][\A t \in Txs :
          /\ (create_project(t, "b1", "t0") /\ projects = <<>>) =>
                 projects' = OpenProject /\ result'[t].status = 201
          /\ (Returns(t, "create_request", "s1", 1) /\ Posted /\ requests = <<>>) =>
                 requests' = OneBid /\ result'[t].status = 201
          /\ (Returns(t, "create_request", "s2", 1) /\ Posted /\ requests = OneBid) =>
                 Bidding' /\ result'[t].status = 201
          /\ (accept_request_get_request(t, "b1", 1) /\ Bidding) => tx'[t].pc # "idle"
          /\ (Returns(t, "accept_request", "b1", 1) /\ Bidding) =>
                 Assigned' /\ result'[t].status = 200
          /\ (create_task_get_project(t, "s2", 1, "t0") /\ Assigned) =>
                 result'[t].status = 403 /\ UNCHANGED tables
          /\ (create_task_get_project(t, "s1", 1, "t0") /\ Assigned) => tx'[t].pc # "idle"
          /\ (Returns(t, "create_task", "s1", 1) /\ Assigned) =>
                 Working' /\ result'[t].status = 201
          /\ (create_submission_get_task(t, "s1", 1, "zip") /\ (Working \/ Returned1)) =>
                 tx'[t].pc # "idle"
          /\ (/\ Returns(t, "create_submission", "s1", 1)
              /\ validate_zip(tx[t].patch)
              /\ result'[t].detail # "StorageError") =>
                 /\ Working => FirstSubmitted' /\ result'[t].status = 201
                 /\ Returned1 => Resubmitted' /\ result'[t].status = 201
          /\ (reject_submission_get_chain(t, "b1", 1) /\ FirstSubmitted) =>
                 tx'[t].pc # "idle"
          /\ (Returns(t, "reject_submission", "b1", 1) /\ FirstSubmitted) =>
                 Returned1' /\ result'[t].status = 200
          /\ (accept_submission_get_chain(t, "b1", 2) /\ Resubmitted) =>
                 tx'[t].pc # "idle"
          /\ (Returns(t, "accept_submission", "b1", 2) /\ Resubmitted) =>
                 Delivered' /\ result'[t].status = 200]_vars

\* the scenario has run to its end
C14_Witness == Delivered /\ result[1].status = 200 /\ tx[1].pc = "idle"

\* the place of a project status in the lifecycle OPEN, ASSIGNED, COMPLETED
StatusRank(status) ==
    CASE status = "OPEN" -> 0
      [] status = "ASSIGNED" -> 1
      [] status = "COMPLETED" -> 2

\* C15: a project's status only moves forward: no step, in any interleaving
\* of the handlers, takes a project from ASSIGNED or COMPLETED back to OPEN,
\* or from COMPLETED back to ASSIGNED
C15_ProjectStatusForwardOnly ==
    [][\A p \in DOMAIN projects :
          StatusRank(projects'[p].status) >= StatusRank(projects[p].status)]_vars

\* C16: the terminal states of a request never revert: a request that is
\* ACCEPTED or REJECTED keeps its status in every later step, and
\* accept_request or reject_request called on it by a buyer returns 400
\* "Request is not pending"
C16_RequestTerminalStatesStay ==
    [][\A r \in DOMAIN requests :
          requests[r].status \in {"ACCEPTED", "REJECTED"} =>
              /\ requests'[r].status = requests[r].status
              /\ \A t \in Txs, b \in Buyers :
                    (\/ accept_request_get_request(t, b, r)
                     \/ reject_request_get_request(t, b, r)) =>
                        result'[t] = [status |-> 400, detail |-> "Request is not pending"]]_vars

\* C17: COMPLETED is terminal for a task: no step changes the status of a
\* COMPLETED task, and update_task by the assigned solver on a task it
\* loaded as COMPLETED returns 400 "Cannot update a completed task" and
\* leaves the task as it was
C17_CompletedTaskIsTerminal ==
    [][\A k \in DOMAIN tasks :
          tasks[k].status = "COMPLETED" =>
              /\ tasks'[k].status = "COMPLETED"
              /\ \A t \in Txs :
                    (/\ update_task_get_project(t)
                     /\ tx[t].arg = k
                     /\ tx[t].task_status = "COMPLETED"
                     /\ tx[t].user = projects[tasks[k].project_id].assigned_solver_id) =>
                        /\ result'[t] = [status |-> 400,
                                         detail |-> "Cannot update a completed task"]
                        /\ tasks'[k] = tasks[k]]_vars

\* C18: assigned_solver_id is set once: after it is non-null no step, in any
\* interleaving of the handlers, changes its value
C18_AssignedSolverSetOnce ==
    [][\A p \in DOMAIN projects :
          projects[p].assigned_solver_id # NULL =>
              projects'[p].assigned_solver_id = projects[p].assigned_solver_id]_vars

\* C19: in every reachable state each task's project is ASSIGNED or
\* COMPLETED, never OPEN, and the task was created by the project's assigned
\* solver; every new task starts IN_PROGRESS
C19_TasksBelongToAssignedSolver ==
    [][/\ \A k \in DOMAIN tasks' :
              /\ projects'[tasks'[k].project_id].status \in {"ASSIGNED", "COMPLETED"}
              /\ tasks'[k].created_by = projects'[tasks'[k].project_id].assigned_solver_id
       /\ \A k \in DOMAIN tasks' \ DOMAIN tasks : tasks'[k].status = "IN_PROGRESS"]_vars

\* C20: no two request rows share (project_id, solver_id), in any
\* interleaving of create_request calls; a create_request that finds a row
\* for its pair returns 400 "You already requested this project" and
\* inserts nothing
C20_OneRequestPerPair ==
    [][/\ \A r, q \in DOMAIN requests' :
              (/\ requests'[r].project_id = requests'[q].project_id
               /\ requests'[r].solver_id = requests'[q].solver_id) => r = q
       /\ \A t \in Txs :
              (/\ tx[t].op = "create_request"
               /\ tx[t].pc \in {"cr_check", "cr_commit"}
               /\ tx'[t].pc = "idle"
               /\ ExistingRequest(tx[t].project_id, tx[t].user)) =>
                  /\ result'[t] = [status |-> 400,
                                   detail |-> "You already requested this project"]
                  /\ requests' = requests]_vars

\* ---- claims C21 to C30 ---------------------------------------------------

ReviewOps == {"accept_request", "reject_request", "accept_submission", "reject_submission"}

\* user owns, as a BUYER, the project
OwningBuyer(user, project_id) ==
    users[user] = "BUYER" /\ projects[project_id].buyer_id = user

\* C21: a review (accept_request, reject_request, accept_submission,
\* reject_submission) that returns 200 was called by the BUYER who owns the
\* project of the request or submission; a call by anyone else returns 403
\* and changes nothing
C21_ReviewsOnlyByOwningBuyer ==
    [][\A t \in Txs :
          /\ (tx[t].op \in ReviewOps /\ tx'[t].pc = "idle" /\ result'[t].status = 200) =>
                 OwningBuyer(tx[t].user, tx[t].project_id)
          /\ \A u \in Users, r \in DOMAIN requests :
                 (/\ \/ accept_request_get_request(t, u, r)
                     \/ reject_request_get_request(t, u, r)
                  /\ users[u] # "BUYER") =>
                     result'[t].status = 403 /\ UNCHANGED tables
          /\ (/\ tx[t].pc \in {"ar_get_project", "rr_get_project"}
              /\ tx'[t] # tx[t]
              /\ ~OwningBuyer(tx[t].user, tx[t].project_id)) =>
                 /\ tx'[t].pc = "idle" /\ result'[t].status = 403
                 /\ UNCHANGED tables
          /\ \A u \in Users, s \in DOMAIN submissions :
                 (/\ \/ accept_submission_get_chain(t, u, s)
                     \/ reject_submission_get_chain(t, u, s)
                  /\ ~OwningBuyer(u, tasks[submissions[s].task_id].project_id)) =>
                     result'[t].status = 403 /\ UNCHANGED tables]_vars

\* buyer b2 was refused on b1's project and b1's review went through
C21_Witness ==
    \E t, o \in Txs :
        /\ result[t] = [status |-> 403, detail |-> "Not your project"]
        /\ calls.of[o].op \in ReviewOps
        /\ tx[o].pc = "idle"
        /\ result[o].status = 200

SolverOps == {"create_task", "update_task", "create_submission"}

\* C22: a create_task, update_task or create_submission that succeeds was
\* called by a SOLVER who is the assigned solver of the project, and a
\* create_submission succeeds only on a task that is IN_PROGRESS or
\* REVISION_REQUESTED
C22_SolverOpsOnlyByAssignedSolver ==
    [][\A t \in Txs :
          (/\ tx[t].op \in SolverOps
           /\ tx'[t].pc = "idle"
           /\ result'[t].status \in {200, 201}) =>
              /\ users[tx[t].user] = "SOLVER"
              /\ projects[tx[t].project_id].assigned_solver_id = tx[t].user
              /\ tx[t].op = "create_submission" =>
                    tasks[tx[t].arg].status \in {"IN_PROGRESS", "REVISION_REQUESTED"}]_vars

\* the error kind of each raise site, by its detail
NotFoundDetails ==
    {"Project not found", "Request not found", "Submission not found", "Task not found"}
ForbiddenDetails ==
    {"Role is not allowed", "Not your project", "Not assigned to this project",
     "You are not assigned to this project"}
InvalidStateDetails ==
    {"Can only update OPEN projects", "Cannot submit when task is in this status",
     "Cannot update a completed task", "Project is not open for requests",
     "Project is not open", "Project must be in ASSIGNED status",
     "Request is not pending", "Submission is not pending review"}
ConflictDetails ==
    {"You already requested this project", "Task already has a submission pending review"}
ValidationDetails == {"File is not a valid ZIP archive"}
StorageDetails == {"StorageError"}

ErrorKind(detail) ==
    CASE detail \in NotFoundDetails -> "NotFound"
      [] detail \in ForbiddenDetails -> "Forbidden"
      [] detail \in InvalidStateDetails -> "InvalidState"
      [] detail \in ConflictDetails -> "Conflict"
      [] detail \in ValidationDetails -> "ValidationError"
      [] detail \in StorageDetails -> "StorageError"
      [] OTHER -> "none"

\* C23: each error kind has its own status: two calls that failed with
\* errors of different kinds returned different statuses
C23_ErrorKindsHaveOwnStatus ==
    \A t, o \in Txs :
        (/\ ErrorKind(result[t].detail) # "none"
         /\ ErrorKind(result[o].detail) # "none"
         /\ ErrorKind(result[t].detail) # ErrorKind(result[o].detail)) =>
            result[t].status # result[o].status

\* ==== projects/service.py: the read operations ============================

\* an ADMIN account besides the buyers and solvers of the write operations
Admins == {"a1"}
Viewers == Users \cup Admins
RoleOf(user) == IF user \in Admins THEN "ADMIN" ELSE users[user]

PageLimit == 1
Pages == 1 .. (MaxProjects + 1)

\* the WHERE clause of list_projects, by role
where_clause(user, project) ==
    IF RoleOf(user) = "ADMIN" THEN TRUE
    ELSE IF RoleOf(user) = "BUYER" THEN project.buyer_id = user
    ELSE project.status = "OPEN" \/ project.assigned_solver_id = user

\* ids of the matching projects, newest first
NewestFirst(user) ==
    LET n == Cardinality(DOMAIN projects)
        all == [i \in 1..n |-> n + 1 - i]
        Match(p) == where_clause(user, projects[p])
    IN SelectSeq(all, Match)

\* GET /api/projects?page=&limit= : the page of the matching projects
list_projects(user, page, limit) ==
    LET rows == NewestFirst(user)
        offset == (page - 1) * limit
    IN [i \in 1..(IF Len(rows) - offset > limit THEN limit
                  ELSE IF Len(rows) > offset THEN Len(rows) - offset ELSE 0)
            |-> rows[offset + i]]

\* the solver branch with "or" for "and": a solver is denied any project
\* that is not OPEN
get_project_by_id_or(user, project_id) ==
    IF project_id \notin DOMAIN projects THEN 404
    ELSE LET project == projects[project_id] IN
         IF RoleOf(user) = "ADMIN" THEN 200
         ELSE IF RoleOf(user) = "BUYER"
         THEN IF project.buyer_id # user THEN 403 ELSE 200
         ELSE IF project.status # "OPEN" \/ project.assigned_solver_id # user
              THEN 403 ELSE 200

\* GET /api/projects/{id} : the status returned
get_project_by_id(user, project_id) ==
    IF project_id \notin DOMAIN projects THEN 404
    ELSE LET project == projects[project_id] IN
         IF RoleOf(user) = "ADMIN" THEN 200
         ELSE IF RoleOf(user) = "BUYER"
         THEN IF project.buyer_id # user THEN 403 ELSE 200
         ELSE IF project.status # "OPEN" /\ project.assigned_solver_id # user
              THEN 403 ELSE 200

\* project_id is on some page of the user's listing
Listed(user, project_id) ==
    \E page \in Pages :
        \E i \in DOMAIN list_projects(user, page, PageLimit) :
            list_projects(user, page, PageLimit)[i] = project_id

\* C24: get_project_by_id and list_projects use one visibility rule: an
\* ADMIN sees every project, a BUYER the projects it owns, a SOLVER the
\* projects that are OPEN or assigned to it; get_project_by_id returns 403
\* for exactly the projects the listing of the same user omits
C24_OneVisibilityRule ==
    \A u \in Viewers, p \in DOMAIN projects :
        LET visible ==
                \/ RoleOf(u) = "ADMIN"
                \/ RoleOf(u) = "BUYER" /\ projects[p].buyer_id = u
                \/ RoleOf(u) = "SOLVER" /\ (\/ projects[p].status = "OPEN"
                                            \/ projects[p].assigned_solver_id = u)
        IN /\ Listed(u, p) <=> visible
           /\ get_project_by_id(u, p) = 200 <=> Listed(u, p)
           /\ get_project_by_id(u, p) = 403 <=> ~Listed(u, p)

\* a project assigned to s2 by an accept_request: s2 and the owner see it,
\* s1 and the other buyer do not
C24_Witness ==
    \E p \in DOMAIN projects :
        /\ projects[p].status = "ASSIGNED"
        /\ projects[p].assigned_solver_id = "s2"
        /\ get_project_by_id("s2", p) = 200 /\ Listed("s2", p)
        /\ get_project_by_id("s1", p) = 403 /\ ~Listed("s1", p)
        /\ get_project_by_id("b2", p) = 403 /\ ~Listed("b2", p)
        /\ get_project_by_id("a1", p) = 200 /\ Listed("a1", p)

\* C25: update_project succeeds only for the BUYER who owns the project and
\* only while the project is OPEN (403 for another caller, 400 for a project
\* that is not OPEN); it writes the provided title and nothing else: status,
\* buyer_id and assigned_solver_id keep their values, and a title that is
\* not provided keeps its value
C25_UpdateProjectFrame ==
    [][\A t \in Txs :
          /\ (tx[t].op = "update_project" /\ tx'[t].pc = "idle") =>
                 LET p == tx[t].arg IN
                 /\ result'[t].status = 200
                 /\ OwningBuyer(tx[t].user, p)
                 /\ projects[p].status = "OPEN"
                 /\ projects' = [projects EXCEPT ![p].title =
                        IF tx[t].patch # NULL THEN tx[t].patch ELSE @]
                 /\ UNCHANGED <<users, requests, tasks, submissions>>
          /\ \A u \in Users, p \in DOMAIN projects, title \in Titles \cup {NULL} :
                 update_project_get(t, u, p, title) =>
                     /\ UNCHANGED tables
                     /\ ~OwningBuyer(u, p) => result'[t].status = 403
                     /\ (OwningBuyer(u, p) /\ projects[p].status # "OPEN") =>
                            result'[t].status = 400]_vars

\* C26: in every reachable state a submission has reviewer_notes only if
\* its status is REJECTED
C26_NotesOnlyOnRejected ==
    \A s \in DOMAIN submissions :
        submissions[s].reviewer_notes # NULL => submissions[s].status = "REJECTED"

\* C27: submissions are never deleted or overwritten: no step removes a
\* row or changes a row's task_id or file_url, and a create_submission that
\* succeeds inserts one new row and leaves every existing row, the REJECTED
\* ones included, as it was
C27_SubmissionsOnlyGrow ==
    [][/\ DOMAIN submissions \subseteq DOMAIN submissions'
       /\ \A s \in DOMAIN submissions :
              /\ submissions'[s].task_id = submissions[s].task_id
              /\ submissions'[s].file_url = submissions[s].file_url
       /\ \A t \in Txs :
              (/\ tx[t].op = "create_submission"
               /\ tx'[t].pc = "idle"
               /\ result'[t].status = 201) =>
                  /\ DOMAIN submissions' = DOMAIN submissions \cup {NextId(submissions)}
                  /\ submissions'[NextId(submissions)].task_id = tx[t].arg
                  /\ \A s \in DOMAIN submissions : submissions'[s] = submissions[s]]_vars

\* a resubmission was committed beside the REJECTED row of the same task
C27_Witness ==
    \E t \in Txs :
        /\ calls.of[t].op = "create_submission"
        /\ tx[t].pc = "idle"
        /\ result[t].status = 201
        /\ DOMAIN submissions = {1, 2}
        /\ submissions[1].status = "REJECTED"
        /\ submissions[2].status = "PENDING_REVIEW"
        /\ submissions[2].task_id = submissions[1].task_id
        /\ submissions[2].file_url # submissions[1].file_url

\* C28: reject_request writes one thing: a call on a request that is not
\* PENDING returns 400 and writes nothing, and a call that succeeds sets the
\* status of the targeted request to REJECTED and leaves the project (its
\* status and assigned_solver_id) and every other request as they were
C28_RejectRequestFrame ==
    [][\A t \in Txs :
          /\ \A b \in Buyers, r \in DOMAIN requests :
                 (reject_request_get_request(t, b, r) /\ requests[r].status # "PENDING") =>
                     result'[t].status = 400 /\ UNCHANGED tables
          /\ (tx[t].op = "reject_request" /\ tx'[t].pc = "idle"
                   /\ result'[t].status = 200) =>
                 /\ requests'[tx[t].arg].status = "REJECTED"
                 /\ \A r \in DOMAIN requests \ {tx[t].arg} : requests'[r] = requests[r]
                 /\ DOMAIN requests' = DOMAIN requests
                 /\ UNCHANGED <<users, projects, tasks, submissions>>
          /\ (tx[t].op = "reject_request" /\ tx'[t].pc = "idle"
                   /\ result'[t].status # 200) => UNCHANGED tables]_vars

\* one of two bids was rejected: the other is PENDING, the project OPEN
C28_Witness ==
    \E t \in Txs, r, q \in DOMAIN requests :
        /\ calls.of[t] = [op |-> "reject_request", arg |-> r]
        /\ tx[t].pc = "idle"
        /\ result[t].status = 200
        /\ requests[r].status = "REJECTED"
        /\ q # r
        /\ requests[q].status = "PENDING"
        /\ projects[requests[r].project_id].status = "OPEN"
        /\ projects[requests[r].project_id].assigned_solver_id = NULL

\* a session that is inside a handler takes its next step: the event loop
\* resumes every coroutine whose await has completed, and the database
\* resolves every lock wait (the holder commits, or a deadlock is detected)
Continue(t) ==
    /\ tx[t].pc # "idle"
    /\ \/ Handlers(t, Titles) /\ Budget(t) /\ UNCHANGED auth
       \/ deadlock_abort(t) /\ UNCHANGED <<calls, auth>>

\* overlapping handlers under fair scheduling
FairSpec == Spec /\ \A t \in Txs : WF_vars(Continue(t))

C30_CreateTaskCheckOrder ==
    [][\A t \in Txs, s \in Solvers, p \in ProjectIds, title \in Titles :
          create_task_get_project(t, s, p, title) =>
              /\ p \notin DOMAIN projects =>
                    result'[t] = [status |-> 404, detail |-> "Project not found"]
              /\ (p \in DOMAIN projects /\ projects[p].status # "ASSIGNED") =>
                    result'[t] = [status |-> 400,
                                  detail |-> "Project must be in ASSIGNED status"]
              /\ (/\ p \in DOMAIN projects
                  /\ projects[p].status = "ASSIGNED"
                  /\ projects[p].assigned_solver_id # s) =>
                    result'[t] = [status |-> 403,
                                  detail |-> "You are not assigned to this project"]
              /\ result'[t].status \in {400, 403, 404} =>
                    tx'[t].pc = "idle" /\ UNCHANGED tables]_vars

\* after an accept_request in this run, the solver of the REJECTED bid was
\* refused on the ASSIGNED project and no task exists
C30_Witness ==
    \E t, o \in Txs, p \in DOMAIN projects, r \in DOMAIN requests :
        /\ calls.of[o].op = "accept_request"
        /\ result[o].status = 200
        /\ result[t] = [status |-> 403, detail |-> "You are not assigned to this project"]
        /\ projects[p].status = "ASSIGNED"
        /\ requests[r].project_id = p
        /\ requests[r].status = "REJECTED"
        /\ requests[r].solver_id # projects[p].assigned_solver_id
        /\ tasks = <<>>

\* ---- claims C31 to C40 ---------------------------------------------------

\* the transitions listed in the module docstring of tasks/service.py
DocumentedTransitions ==
    { <<"IN_PROGRESS", "SUBMITTED">>, <<"SUBMITTED", "COMPLETED">>,
      <<"SUBMITTED", "REVISION_REQUESTED">>, <<"REVISION_REQUESTED", "IN_PROGRESS">> }

\* C31: a task's status changes only along the documented transitions:
\* IN_PROGRESS to SUBMITTED, SUBMITTED to COMPLETED, SUBMITTED to
\* REVISION_REQUESTED, REVISION_REQUESTED to IN_PROGRESS
C31_TaskTransitionsAsDocumented ==
    [][\A k \in DOMAIN tasks :
          tasks'[k].status # tasks[k].status =>
              <<tasks[k].status, tasks'[k].status>> \in DocumentedTransitions]_vars

\* C32: under any interleaving of create_task, create_submission,
\* accept_submission and reject_submission, a COMPLETED project has no task
\* that is not COMPLETED
C32_CompletedProjectHasOnlyCompletedTasks ==
    \A p \in DOMAIN projects :
        projects[p].status = "COMPLETED" =>
            \A k \in DOMAIN tasks :
                tasks[k].project_id = p => tasks[k].status = "COMPLETED"

SubmissionReviews == {"accept_submission", "reject_submission"}

\* C33: the review of a submission is final and singular: no step changes
\* the status of an ACCEPTED or REJECTED submission, and of two overlapping
\* reviews of one submission exactly one returns 200 and the other 400
C33_OneReviewPerSubmission ==
    [][/\ \A s \in DOMAIN submissions :
              submissions[s].status \in {"ACCEPTED", "REJECTED"} =>
                  submissions'[s].status = submissions[s].status
       /\ (/\ \A t \in Txs : calls'.of[t].op \in SubmissionReviews
           /\ calls'.of[1].arg = calls'.of[2].arg
           /\ \A t \in Txs : tx'[t].pc = "idle") =>
              \E w \in Txs :
                  /\ result'[w].status = 200
                  /\ \A l \in Txs \ {w} : result'[l].status = 400]_vars

\* C34: under any interleaving of create_request with accept_request, no
\* PENDING request exists on a project that is ASSIGNED or COMPLETED
C34_NoPendingBidOnAssignedProject ==
    \A r \in DOMAIN requests :
        requests[r].status = "PENDING" =>
            projects[requests[r].project_id].status = "OPEN"

\* the statuses of the submissions of a task, as a bag would count them
SubmissionsOf(task_id, status) ==
    {s \in DOMAIN submissions :
        submissions[s].task_id = task_id /\ submissions[s].status = status}
AllSubmissionsOf(task_id) ==
    {s \in DOMAIN submissions : submissions[s].task_id = task_id}

StatusFromSubmissions(k) ==
    /\ tasks[k].status = "IN_PROGRESS" <=> AllSubmissionsOf(k) = {}
    /\ tasks[k].status = "SUBMITTED" <=>
           Cardinality(SubmissionsOf(k, "PENDING_REVIEW")) = 1
    /\ tasks[k].status = "REVISION_REQUESTED" <=>
           /\ AllSubmissionsOf(k) # {}
           /\ AllSubmissionsOf(k) = SubmissionsOf(k, "REJECTED")
    /\ tasks[k].status = "COMPLETED" <=>
           /\ Cardinality(SubmissionsOf(k, "ACCEPTED")) = 1
           /\ SubmissionsOf(k, "PENDING_REVIEW") = {}

TasksOf(p) == {k \in DOMAIN tasks : tasks[k].project_id = p}

\* C36: with the operations run one at a time, a project is COMPLETED iff
\* it has at least one task and all its tasks are COMPLETED; a project with
\* no task is never COMPLETED
C36_CompletedIffAllTasksCompleted ==
    \A p \in DOMAIN projects :
        projects[p].status = "COMPLETED" <=>
            /\ TasksOf(p) # {}
            /\ \A k \in TasksOf(p) : tasks[k].status = "COMPLETED"

\* the second of two tasks was accepted and the project completed; before
\* that it had stayed ASSIGNED with one task COMPLETED
C36_Witness ==
    \E p \in DOMAIN projects :
        /\ projects[p].status = "COMPLETED"
        /\ Cardinality(TasksOf(p)) = 2
        /\ result[1].status = 200

\* C37: every blob stored by create_submission ends up referenced by
\* exactly one submission row: once no create_submission is between its
\* upload and its return, no stored blob is without a row
C37_NoOrphanBlob ==
    (\A t \in Txs : tx[t].pc \notin {"cs_check", "cs_commit"}) =>
        \A b \in blobs :
            Cardinality({s \in DOMAIN submissions : submissions[s].file_url = b}) = 1

\* C38: a solver whose request on a project is REJECTED never becomes the
\* project's assigned solver afterwards: the rejected row stays, is never
\* PENDING again, and no step assigns the project to its solver
C38_RejectedSolverNeverAssigned ==
    [][\A r \in DOMAIN requests :
          requests[r].status = "REJECTED" =>
              /\ r \in DOMAIN requests'
              /\ requests'[r].status # "PENDING"
              /\ projects[requests[r].project_id].assigned_solver_id # requests[r].solver_id =>
                    projects'[requests[r].project_id].assigned_solver_id
                        # requests[r].solver_id]_vars

\* ==== users/service.py ======================================================

\* callers and targets of the role change: the admin and a buyer that is
\* refused; a buyer, the admin itself and an id no row has
RoleCallers == {"a1", "b2"}
RoleTargets == {"b1", "a1", "u0"}

\* PATCH /api/users/{id}/role : require_role(ADMIN), the role must be BUYER
\* or SOLVER, the target is not the caller, exists and is not an admin;
\* then UPDATE + COMMIT
update_user_role(t, admin, user_id, new_role) ==
    /\ tx[t].pc = "idle"
    /\ IF RoleOf(admin) # "ADMIN"
       THEN /\ Return(t, "update_user_role", admin, 0, 403, "Role is not allowed")
            /\ UNCHANGED <<tables, blobs>>
       ELSE IF new_role \notin {"BUYER", "SOLVER"}
       THEN /\ Return(t, "update_user_role", admin, 0, 400, "Role must be BUYER or SOLVER")
            /\ UNCHANGED <<tables, blobs>>
       ELSE IF user_id = admin
       THEN /\ Return(t, "update_user_role", admin, 0, 400, "Cannot change your own role")
            /\ UNCHANGED <<tables, blobs>>
       ELSE IF user_id \notin Viewers
       THEN /\ Return(t, "update_user_role", admin, 0, 404, "User not found")
            /\ UNCHANGED <<tables, blobs>>
       ELSE IF RoleOf(user_id) = "ADMIN"
       THEN /\ Return(t, "update_user_role", admin, 0, 400, "Cannot change an admin's role")
            /\ UNCHANGED <<tables, blobs>>
       ELSE /\ users' = [users EXCEPT ![user_id] = new_role]
            /\ Return(t, "update_user_role", admin, 0, 200, "")
            /\ UNCHANGED <<projects, requests, tasks, submissions, blobs>>

\* the workflow handlers and the role change, run one at a time from the
\* empty store
RoleNext ==
    /\ \/ Handlers(1, {"t0"})
       \/ \E a \in RoleCallers, u \in RoleTargets, role \in UserRole :
             update_user_role(1, a, u, role)
    /\ UNCHANGED <<calls, auth>>

RoleSpec == Init /\ [][RoleNext]_vars

\* C39: with role changes among the operations, no request is made by the
\* buyer of its project and no project is assigned to its own buyer
C39_NoBidOnOwnProject ==
    /\ \A r \in DOMAIN requests :
          requests[r].solver_id # projects[requests[r].project_id].buyer_id
    /\ \A p \in DOMAIN projects :
          projects[p].assigned_solver_id # projects[p].buyer_id

\* ==== auth/router.py, auth/service.py ======================================

\* the refresh_token cookie of a call: 0 is no cookie, k the raw token k
Cookies == 0..MaxTokens

\* service.validate_refresh_token: the row with this hash that has not
\* expired, and its user
validate_refresh_token(raw_token) ==
    IF /\ raw_token \in DOMAIN refresh_tokens
       /\ ~refresh_tokens[raw_token].expired
       /\ refresh_tokens[raw_token].user_id \in DOMAIN users
    THEN refresh_tokens[raw_token].user_id
    ELSE NULL

\* service.revoke_refresh_token: SELECT the row, DELETE + COMMIT when it
\* is there, nothing otherwise
revoke_refresh_token(raw_token) ==
    [k \in DOMAIN refresh_tokens \ {raw_token} |-> refresh_tokens[k]]

\* POST /api/auth/refresh, steps 1 and 2: read the cookie, validate it
refresh_token_validate(t, raw_token) ==
    /\ tx[t].pc = "idle"
    /\ IF raw_token = 0
       THEN /\ Return(t, "refresh_token", NULL, raw_token, 401, "No refresh token")
            /\ UNCHANGED <<tables, blobs, auth>>
       ELSE IF validate_refresh_token(raw_token) = NULL
       THEN /\ Return(t, "refresh_token", NULL, raw_token, 401,
                      "Invalid or expired refresh token")
            /\ UNCHANGED <<tables, blobs, auth>>
       ELSE /\ tx' = [tx EXCEPT ![t] =
                  [Enter(t, "refresh_token", validate_refresh_token(raw_token), raw_token)
                      EXCEPT !.pc = "rt_validated"]]
            /\ UNCHANGED <<result, tables, blobs, auth>>

\* POST /api/auth/refresh, step 3a: revoke the old token (own COMMIT)
refresh_token_revoke(t) ==
    /\ tx[t].pc = "rt_validated"
    /\ refresh_tokens' = revoke_refresh_token(tx[t].arg)
    /\ tx' = [tx EXCEPT ![t].pc = "rt_revoked"]
    /\ UNCHANGED <<result, tables, blobs, token_count>>

\* POST /api/auth/refresh, steps 3b and 4: create_and_store_refresh_token
\* (a fresh raw token, INSERT + COMMIT), set the cookie, return the access
\* token
refresh_token_create(t) ==
    /\ tx[t].pc = "rt_revoked"
    /\ token_count < MaxTokens
    /\ token_count' = token_count + 1
    /\ refresh_tokens' =
          refresh_tokens @@ (token_count + 1 :> RefreshToken(tx[t].user, FALSE))
    /\ Return(t, "refresh_token", tx[t].user, tx[t].arg, 200, "")
    /\ UNCHANGED <<tables, blobs>>

\* POST /api/auth/logout : revoke the cookie's token when there is a
\* cookie, clear the cookie, 204
logout(t, raw_token) ==
    /\ tx[t].pc = "idle"
    /\ refresh_tokens' =
          IF raw_token # 0 THEN revoke_refresh_token(raw_token) ELSE refresh_tokens
    /\ Return(t, "logout", NULL, raw_token, 204, "")
    /\ UNCHANGED <<tables, blobs, token_count>>

\* refresh and logout calls, one session each
AuthNext ==
    \E t \in Txs :
        /\ \/ \E raw_token \in Cookies : refresh_token_validate(t, raw_token)
           \/ refresh_token_revoke(t)
           \/ refresh_token_create(t)
           \/ \E raw_token \in Cookies : logout(t, raw_token)
        /\ Budget(t)

AuthSpec == Init /\ [][AuthNext]_vars

\* C40: a refresh token is usable once: of the refresh calls that present
\* the same token at most one returns 200 with new tokens, a token that
\* left the table never comes back, a call that presents a token which is
\* not in the table gets 401, and logout takes the token out of the table
C40_RefreshTokenUsableOnce ==
    [][/\ \A k \in 1..MaxTokens :
            (\A t \in Txs : /\ calls'.of[t] = [op |-> "refresh_token", arg |-> k]
                             /\ tx'[t].pc = "idle")
                => Cardinality({t \in Txs : result'[t].status = 200}) <= 1
       /\ \A k \in 1..token_count :
            k \notin DOMAIN refresh_tokens => k \notin DOMAIN refresh_tokens'
       /\ \A t \in Txs, k \in Cookies :
            /\ refresh_token_validate(t, k) /\ k \notin DOMAIN refresh_tokens
                  => result'[t].status = 401
            /\ logout(t, k) => k \notin DOMAIN refresh_tokens']_vars

====
